---- MODULE Spec2Model ----
(***************************************************************************)
(* Model of the intent-resolution engine of the scheduling assistant:      *)
(*   app/nlu.py              normalisation of time spellings, extraction   *)
(*                           of a date/time, classification of the intent  *)
(*   app/calendar_client.py  choice of the target event of move/delete     *)
(*   app/main.py             dispatch of an intent to the calendar         *)
(*                                                                         *)
(* A text is a sequence of characters, each character a one-element        *)
(* string.  The tools read ASCII only, so a Cyrillic letter is written as  *)
(* its Latin transliteration and is still ONE character of the sequence:   *)
(* "ch" stands for the letter che, "zh" for zhe, "ya" for ya, "j" for      *)
(* short i, "y" for yeru, "soft" and "hard" for the two signs; LowerSeq    *)
(* lists the alphabet in its order.  An upper-case letter is the same name *)
(* in capitals.                                                            *)
(***************************************************************************)
EXTENDS Integers, Sequences, FiniteSets, TLC

VARIABLES
    text,        \* the text handed to the operation under study
    normalized,  \* _parse_when: normalized = _normalize_time_tokens(text)
    pc,          \* position of the running operation
    now,         \* the clock reading the operation took (seconds)
    calendar,    \* the events stored by the calendar service
    call,        \* the arguments of the running CalendarClient call
    events,      \* move_event / delete_event: the fetched list
    target,      \* move_event / delete_event: the chosen event
    requests,    \* the requests sent to the calendar service, in order
    result,      \* what the CalendarClient call returned or raised
    dt,          \* _parse_when: the result of dateparser.parse
    found,       \* _parse_when: the result of search_dates
    when,        \* parse_intent: the result of _parse_when
    intent,      \* process_text: the result of parse_intent
    replies,     \* the replies delivered to the sender of the message
    jobs,        \* the jobs added to the scheduler
    reminders,   \* the reminders sent at once (asyncio.create_task)
    sender,      \* m.from_user.id of the incoming message
    kind         \* what the incoming message carries: "text", "voice", "other"

nluVars == <<text, normalized, dt, found, when, intent>>
calVars == <<now, calendar, call, events, target, requests, result>>
botVars == <<replies, jobs, reminders, sender, kind>>
vars == <<text, normalized, pc, now, calendar, call, events, target, requests,
          result, dt, found, when, intent, replies, jobs, reminders, sender, kind>>

\* an Optional value is None or Some(x); x is then the value [1]
None == <<>>
Some(x) == <<x>>

(***************************************************************************)
(* Characters and the character classes of Python's re module.             *)
(***************************************************************************)
Digits == {"0", "1", "2", "3", "4", "5", "6", "7", "8", "9"}

LowerSeq == <<"a", "b", "v", "g", "d", "e", "yo", "zh", "z", "i", "j",
              "k", "l", "m", "n", "o", "p", "r", "s", "t", "u", "f", "h",
              "c", "ch", "sh", "shch", "hard", "y", "soft", "eh", "yu",
              "ya">>

UpperSeq == <<"A", "B", "V", "G", "D", "E", "YO", "ZH", "Z", "I", "J",
              "K", "L", "M", "N", "O", "P", "R", "S", "T", "U", "F", "H",
              "C", "CH", "SH", "SHCH", "HARD", "Y", "SOFT", "EH", "YU",
              "YA">>

Range(f) == {f[k] : k \in DOMAIN f}

Letters == Range(LowerSeq) \cup Range(UpperSeq)

IsDigit(c) == c \in Digits

\* \s
IsSpace(c) == c \in {" ", "\t", "\n"}

\* \w
IsWord(c) == c \in Digits \cup Letters \cup {"_"}

\* the set [\d.:/\-] of the look-around guards of _RE_HHMM
IsDateSep(c) == c \in Digits \cup {".", ":", "/", "-"}

\* the years a bare four-digit run is read as
PlausibleYears == 1900..2100

DigitVal(c) == CHOOSE n \in 0..9 : ToString(n) = c

\* \b at the gap before position i (1-based) of s
WordBoundary(s, i) ==
    LET before == i > 1 /\ i - 1 <= Len(s) /\ IsWord(s[i - 1])
        after  == i >= 1 /\ i <= Len(s) /\ IsWord(s[i])
    IN  before # after

DigitAt(s, i) == i >= 1 /\ i <= Len(s) /\ IsDigit(s[i])

\* f"{hh:02d}" for the one or two digits s[i..i+n-1]
Pad2(s, i, n) == IF n = 1 THEN <<"0", s[i]>> ELSE <<s[i], s[i + 1]>>

\* int(...) of the one or two digits s[i..i+n-1]
HourVal(s, i, n) ==
    IF n = 1 THEN DigitVal(s[i]) ELSE 10 * DigitVal(s[i]) + DigitVal(s[i + 1])

RECURSIVE SpaceRun(_, _)
\* number of whitespace characters of s from position i on
SpaceRun(s, i) ==
    IF i <= Len(s) /\ IsSpace(s[i]) THEN 1 + SpaceRun(s, i + 1) ELSE 0

(***************************************************************************)
(* _RE_HH_DOT_MM = \b(\d{1,2})\.(\d{2})\b                                  *)
(* The value is the length of group 1 of the match starting at i, 0 when   *)
(* the pattern does not match at i.                                        *)
(***************************************************************************)
DotTail(s, j) ==
    /\ j <= Len(s) /\ s[j] = "."
    /\ DigitAt(s, j + 1) /\ DigitAt(s, j + 2)
    /\ WordBoundary(s, j + 3)

RE_HH_DOT_MM(s, i) ==
    IF ~(WordBoundary(s, i) /\ DigitAt(s, i)) THEN 0
    ELSE IF DigitAt(s, i + 1) /\ DotTail(s, i + 2) THEN 2
    ELSE IF DotTail(s, i + 1) THEN 1
    ELSE 0

(***************************************************************************)
(* _RE_HH_SPACE_MM = \b(\d{1,2})\s+(\d{2})\b                               *)
(* The value is as above; the whitespace run is SpaceRun(s, i + value).    *)
(***************************************************************************)
SpaceTail(s, j) ==
    LET k == SpaceRun(s, j)
    IN  /\ k >= 1
        /\ DigitAt(s, j + k) /\ DigitAt(s, j + k + 1)
        /\ WordBoundary(s, j + k + 2)

RE_HH_SPACE_MM(s, i) ==
    IF ~(WordBoundary(s, i) /\ DigitAt(s, i)) THEN 0
    ELSE IF DigitAt(s, i + 1) /\ SpaceTail(s, i + 2) THEN 2
    ELSE IF SpaceTail(s, i + 1) THEN 1
    ELSE 0

(***************************************************************************)
(* _RE_HHMM = (?<![\d.:/\-])(\d{3,4})(?![\d.:/\-])                         *)
(* the length (4, 3 or 0) of the match starting at i                       *)
(***************************************************************************)
NoSepAt(s, i) == ~(i >= 1 /\ i <= Len(s) /\ IsDateSep(s[i]))

RE_HHMM(s, i) ==
    IF ~(NoSepAt(s, i - 1) /\ DigitAt(s, i) /\ DigitAt(s, i + 1) /\ DigitAt(s, i + 2))
    THEN 0
    ELSE IF DigitAt(s, i + 3) /\ NoSepAt(s, i + 4) THEN 4
    ELSE IF NoSepAt(s, i + 3) THEN 3
    ELSE 0

(***************************************************************************)
(* The three substitutions of _normalize_time_tokens.  re.sub scans from   *)
(* the left, replaces a match and goes on behind it; the look-arounds read *)
(* the string the substitution was started on.                             *)
(***************************************************************************)
\* SubDot with the hour copied as written instead of formatted with :02d
RECURSIVE SubDotUnpadded(_, _)
SubDotUnpadded(s, i) ==
    IF i > Len(s) THEN <<>>
    ELSE LET h == RE_HH_DOT_MM(s, i)
         IN  IF h = 0 THEN <<s[i]>> \o SubDotUnpadded(s, i + 1)
             ELSE SubSeq(s, i, i + h - 1) \o <<":", s[i + h + 1], s[i + h + 2]>>
                  \o SubDotUnpadded(s, i + h + 3)

RECURSIVE SubDot(_, _)
SubDot(s, i) ==
    IF i > Len(s) THEN <<>>
    ELSE LET h == RE_HH_DOT_MM(s, i)
         IN  IF h = 0 THEN <<s[i]>> \o SubDot(s, i + 1)
             ELSE Pad2(s, i, h) \o <<":", s[i + h + 1], s[i + h + 2]>>
                  \o SubDot(s, i + h + 3)

\* _space_to_colon
RECURSIVE SubSpace(_, _)
SubSpace(s, i) ==
    IF i > Len(s) THEN <<>>
    ELSE LET h == RE_HH_SPACE_MM(s, i)
             k == SpaceRun(s, i + h)
             e == i + h + k + 2
         IN  IF h = 0 THEN <<s[i]>> \o SubSpace(s, i + 1)
             ELSE IF HourVal(s, i, h) <= 23
                  THEN Pad2(s, i, h) \o <<":", s[i + h + k], s[i + h + k + 1]>>
                       \o SubSpace(s, e)
                  ELSE SubSeq(s, i, e - 1) \o SubSpace(s, e)

\* _hhmm
RECURSIVE SubHHMM(_, _)
SubHHMM(s, i) ==
    IF i > Len(s) THEN <<>>
    ELSE LET n == RE_HHMM(s, i)
         IN  IF n = 0 THEN <<s[i]>> \o SubHHMM(s, i + 1)
             ELSE IF HourVal(s, i, n - 2) <= 23
                  THEN Pad2(s, i, n - 2) \o <<":", s[i + n - 2], s[i + n - 1]>>
                       \o SubHHMM(s, i + n)
                  ELSE SubSeq(s, i, i + n - 1) \o SubHHMM(s, i + n)

normalize_time_tokens(t) == SubHHMM(SubSpace(SubDot(t, 1), 1), 1)

\* x in s  (Python's substring test)
Contains(s, x) ==
    \E i \in 1..(Len(s) - Len(x) + 1) : SubSeq(s, i, i + Len(x) - 1) = x

(***************************************************************************)
(* Specification of the normaliser as a pure function: the input is drawn  *)
(* from the texts made of at most MaxTokens pieces.                        *)
(***************************************************************************)
MaxTokens == 5

NormTokens == {<<"2">>, <<"2", "0">>, <<"2", "5">>, <<".">>, <<" ">>, <<"a">>}

RECURSIVE TextsOf(_, _)
TextsOf(tokens, n) ==
    IF n = 0 THEN {<<>>}
    ELSE LET shorter == TextsOf(tokens, n - 1)
         IN  shorter \cup {p \o q : p \in shorter, q \in tokens}

\* no CalendarClient call is running
NoCall == [op |-> "none", selector |-> <<>>, new_start |-> None, new_end |-> None]

\* the calendar side at rest
CalIdle ==
    /\ now = 0
    /\ calendar = <<>>
    /\ call = NoCall
    /\ events = <<>>
    /\ target = None
    /\ requests = <<>>
    /\ result = "none"

\* Intent(type="unknown"): every optional field at its default
NoIntent ==
    [type |-> "unknown", title |-> None, start |-> None, end |-> None,
     range_start |-> None, range_end |-> None, selector |-> None,
     new_start |-> None, new_end |-> None]

\* nothing parsed yet
ParseIdle ==
    /\ dt = None
    /\ found = <<>>
    /\ when = None
    /\ intent = NoIntent

\* nothing answered, nothing scheduled
BotIdle ==
    /\ replies = <<>>
    /\ jobs = {}
    /\ reminders = <<>>

\* OWNER_ID = int(os.getenv("TG_OWNER_ID", "0"))
OWNER_ID == 0

\* no message of the messenger is being handled
NoUpdate ==
    /\ sender = OWNER_ID
    /\ kind = "none"

InitNorm ==
    /\ text \in TextsOf(NormTokens, MaxTokens)
    /\ normalized = <<>>
    /\ pc = "start"
    /\ CalIdle
    /\ ParseIdle
    /\ BotIdle
    /\ NoUpdate

Normalize ==
    /\ pc = "start"
    /\ normalized' = normalize_time_tokens(text)
    /\ pc' = "normalized"
    /\ UNCHANGED <<text, dt, found, when, intent, calVars, botVars>>

NextNorm == Normalize

SpecNorm == InitNorm /\ [][NextNorm]_vars

(***************************************************************************)
(* Properties of the normaliser (checked under SpecNorm).                  *)
(***************************************************************************)
\* a word-bounded H.MM / HH.MM with hour 0..23 starts at i
DotFormAt(s, i) ==
    RE_HH_DOT_MM(s, i) > 0 /\ HourVal(s, i, RE_HH_DOT_MM(s, i)) <= 23

\* a word-bounded "H MM" / "HH MM" with hour 0..23 starts at i
SpaceFormAt(s, i) ==
    RE_HH_SPACE_MM(s, i) > 0 /\ HourVal(s, i, RE_HH_SPACE_MM(s, i)) <= 23

TimeFormAt(s, i) == DotFormAt(s, i) \/ SpaceFormAt(s, i)

HasTimeForm(s) == \E i \in 1..Len(s) : TimeFormAt(s, i)

\* where the minutes of the form starting at i begin
MinutesAt(s, i) ==
    IF DotFormAt(s, i) THEN i + RE_HH_DOT_MM(s, i) + 1
    ELSE i + RE_HH_SPACE_MM(s, i) + SpaceRun(s, i + RE_HH_SPACE_MM(s, i))

\* the zero-padded HH:MM of the form starting at i
CanonicalAt(s, i) ==
    LET h == IF DotFormAt(s, i) THEN RE_HH_DOT_MM(s, i) ELSE RE_HH_SPACE_MM(s, i)
        m == MinutesAt(s, i)
    IN  Pad2(s, i, h) \o <<":", s[m], s[m + 1]>>

RunStartsAt(s, i) == DigitAt(s, i) /\ ~DigitAt(s, i - 1)

\* every run of digits of s is the hour or the minutes of exactly one time form
EveryRunInOneForm(s) ==
    \A r \in 1..Len(s) :
        RunStartsAt(s, r) =>
            (TimeFormAt(s, r)
                # (\E i \in 1..Len(s) : TimeFormAt(s, i) /\ MinutesAt(s, i) = r))

AllFormsRewritten(s, out) ==
    /\ \A i \in 1..Len(s) : TimeFormAt(s, i) => Contains(out, CanonicalAt(s, i))
    /\ ~HasTimeForm(out)

\* a run of exactly four digits at i that touches no digit, dot, colon, slash or
\* hyphen and reads as a year
BareYearAt(s, i) ==
    /\ DigitAt(s, i) /\ DigitAt(s, i + 1) /\ DigitAt(s, i + 2) /\ DigitAt(s, i + 3)
    /\ NoSepAt(s, i - 1) /\ NoSepAt(s, i + 4)
    /\ 100 * HourVal(s, i, 2) + HourVal(s, i + 2, 2) \in PlausibleYears

\* C9 (as claimed): a bare four-digit run that is a plausible year is left
\* unchanged by _normalize_time_tokens: the output still holds the four digits
\* and no HH:MM made from them.
C9_YearUntouched ==
    pc = "normalized" =>
        \A i \in 1..Len(text) :
            BareYearAt(text, i) =>
                /\ Contains(normalized, SubSeq(text, i, i + 3))
                /\ ~Contains(normalized,
                             <<text[i], text[i + 1], ":", text[i + 2], text[i + 3]>>)

Day == 24 * 60 * 60

\* timedelta(minutes=30)
HalfHour == 30 * 60

\* the window of move_event / delete_event
WindowPastDays == 30
WindowFutureDays == 365

ToLower(c) ==
    IF \E k \in DOMAIN UpperSeq : UpperSeq[k] = c
    THEN LowerSeq[CHOOSE k \in DOMAIN UpperSeq : UpperSeq[k] = c]
    ELSE c

\* str.lower()
lower(s) == [i \in DOMAIN s |-> ToLower(s[i])]

\* _start_dt: the start instant of an event; an all-day event starts at 00:00 UTC
start_dt(ev) ==
    IF ev.start.kind = "dateTime" THEN ev.start.value ELSE ev.start.value * Day

\* sorted(..., key=_start_dt, reverse=rev) is stable: one more element goes behind
\* the elements that do not sort after it
InsertSorted(done, e, rev) ==
    LET k == Cardinality({i \in DOMAIN done :
                 IF rev THEN start_dt(done[i]) >= start_dt(e)
                        ELSE start_dt(done[i]) <= start_dt(e)})
    IN  SubSeq(done, 1, k) \o <<e>> \o SubSeq(done, k + 1, Len(done))

RECURSIVE sorted(_, _)
sorted(seq, rev) ==
    IF seq = <<>> THEN <<>>
    ELSE InsertSorted(sorted(SubSeq(seq, 1, Len(seq) - 1), rev), seq[Len(seq)], rev)

\* list_events(start, end): the events of the range [start, end), ordered by
\* start time (orderBy="startTime")
list_events(cal, timeMin, timeMax) ==
    LET InRange(ev) == timeMin <= start_dt(ev) /\ start_dt(ev) < timeMax
    IN  sorted(SelectSeq(cal, InRange), FALSE)

\* matches with the operands of "in" swapped
MatchesSwapped(selector, evs) ==
    LET sel == lower(selector)
        Hit(e) == Contains(sel, lower(e.summary))
    IN  SelectSeq(evs, Hit)

\* matches = [e for e in events if sel in e["summary"].lower()]
Matches(selector, evs) ==
    LET sel == lower(selector)
        Hit(e) == Contains(lower(e.summary), sel)
    IN  SelectSeq(evs, Hit)

\* ChooseTarget with reverse=True forgotten in the second sort
ChooseTargetNoReverse(matches, n) ==
    LET IsFuture(e) == start_dt(e) >= n
        future == SelectSeq(matches, IsFuture)
    IN  IF future # <<>> THEN sorted(future, FALSE)[1]
        ELSE sorted(matches, FALSE)[1]

\* the target of move_event / delete_event among the non-empty matches
ChooseTarget(matches, n) ==
    LET IsFuture(e) == start_dt(e) >= n
        future == SelectSeq(matches, IsFuture)
    IN  IF future # <<>> THEN sorted(future, FALSE)[1]
        ELSE sorted(matches, TRUE)[1]

\* the first step asking the service for the list a second time
FetchTwice ==
    /\ pc = "call"
    /\ call.op \in {"move", "delete"}
    /\ events' = list_events(calendar, now - WindowPastDays * Day,
                             now + WindowFutureDays * Day)
    /\ requests' = requests \o
           << [method |-> "list", timeMin |-> now - WindowPastDays * Day,
               timeMax |-> now + WindowFutureDays * Day],
              [method |-> "list", timeMin |-> now - WindowPastDays * Day,
               timeMax |-> now + WindowFutureDays * Day] >>
    /\ pc' = "fetched"
    /\ UNCHANGED <<nluVars, botVars, now, calendar, call, target, result>>

\* move_event / delete_event, first step: now = datetime.now(), events = list_events(...)
Fetch ==
    /\ pc = "call"
    /\ call.op \in {"move", "delete"}
    /\ events' = list_events(calendar, now - WindowPastDays * Day,
                             now + WindowFutureDays * Day)
    /\ requests' = Append(requests,
           [method |-> "list", timeMin |-> now - WindowPastDays * Day,
            timeMax |-> now + WindowFutureDays * Day])
    /\ pc' = "fetched"
    /\ UNCHANGED <<nluVars, botVars, now, calendar, call, target, result>>

\* second step: the matches, the not-found return, the choice of the target
Choose ==
    /\ pc = "fetched"
    /\ LET matches == Matches(call.selector, events)
       IN  IF matches = <<>>
           THEN target' = None /\ result' = "not_found" /\ pc' = "done"
           ELSE target' = Some(ChooseTarget(matches, now)) /\ result' = result
                /\ pc' = "chosen"
    /\ UNCHANGED <<nluVars, botVars, now, calendar, call, events, requests>>

\* events().patch(eventId, body) on the service
Patched(cal, id, newStart) ==
    [i \in DOMAIN cal |->
        IF cal[i].id = id
        THEN [cal[i] EXCEPT !.start = [kind |-> "dateTime", value |-> newStart]]
        ELSE cal[i]]

\* events().delete(eventId) on the service
Deleted(cal, id) == SelectSeq(cal, LAMBDA e : e.id # id)

\* move_event, last step: the default end, the patch.  new_start + timedelta
\* with new_start None raises TypeError before any request is sent.
Move ==
    /\ pc = "chosen"
    /\ call.op = "move"
    /\ IF call.new_start = None
       THEN /\ result' = "TypeError"
            /\ UNCHANGED <<calendar, requests>>
       ELSE LET new_end == IF call.new_end = None
                           THEN call.new_start[1] + HalfHour
                           ELSE call.new_end[1]
            IN  /\ calendar' = Patched(calendar, target[1].id, call.new_start[1])
                /\ requests' = Append(requests,
                       [method |-> "patch", id |-> target[1].id,
                        start |-> call.new_start[1], end |-> new_end])
                /\ result' = "moved"
    /\ pc' = "done"
    /\ UNCHANGED <<nluVars, botVars, now, call, events, target>>

\* delete_event, last step
Delete ==
    /\ pc = "chosen"
    /\ call.op = "delete"
    /\ calendar' = Deleted(calendar, target[1].id)
    /\ requests' = Append(requests, [method |-> "delete", id |-> target[1].id])
    /\ result' = "deleted"
    /\ pc' = "done"
    /\ UNCHANGED <<nluVars, botVars, now, call, events, target>>

(***************************************************************************)
(* Specification of move_event / delete_event: any selector, any stored    *)
(* events (at most MaxEvents), called at noon of day 100.                  *)
(***************************************************************************)
MaxEvents == 3

Noon == 100 * Day + 12 * 60 * 60

Selectors == {<<"a">>, <<"A", "v">>, <<"d">>}

Titles == {<<"A", "V">>, <<"v">>}

\* starts just before and at the call, all day today and tomorrow, and before
\* the window
StartsAround(n) ==
    {[kind |-> "dateTime", value |-> n - 1],
     [kind |-> "dateTime", value |-> n],
     [kind |-> "date", value |-> n \div Day],
     [kind |-> "date", value |-> (n \div Day) + 1],
     [kind |-> "dateTime", value |-> n - (WindowPastDays + 1) * Day]}

\* the calendars of at most n events, numbered in the order of their creation
RECURSIVE CalendarsOf(_, _)
CalendarsOf(n, at) ==
    IF n = 0 THEN {<<>>}
    ELSE LET smaller == CalendarsOf(n - 1, at)
         IN  smaller \cup
             {Append(c, [id |-> Len(c) + 1, summary |-> t, start |-> s]) :
                 c \in {x \in smaller : Len(x) = n - 1},
                 t \in Titles, s \in StartsAround(at)}

MoveCalls(n) ==
    {[op |-> "move", selector |-> sel, new_start |-> p[1], new_end |-> p[2]] :
        sel \in Selectors,
        p \in {<<None, None>>, <<Some(n + Day), None>>,
                <<Some(n + Day), Some(n + Day + 2 * HalfHour)>>}}

DeleteCalls ==
    {[op |-> "delete", selector |-> sel, new_start |-> None, new_end |-> None] :
        sel \in Selectors}

InitCal ==
    /\ text = <<>>
    /\ normalized = <<>>
    /\ ParseIdle
    /\ BotIdle
    /\ NoUpdate
    /\ now = Noon
    /\ calendar \in CalendarsOf(MaxEvents, Noon)
    /\ call \in MoveCalls(Noon) \cup DeleteCalls
    /\ events = <<>>
    /\ target = None
    /\ requests = <<>>
    /\ result = "none"
    /\ pc = "call"

NextCal == Fetch \/ Choose \/ Move \/ Delete

SpecCal == InitCal /\ [][NextCal]_vars

(***************************************************************************)
(* Properties of move_event / delete_event (checked under SpecCal).        *)
(***************************************************************************)
\* the title of e contains the selector, case-insensitively
TitleHas(e, selector) == Contains(lower(e.summary), lower(selector))

Candidates == {i \in DOMAIN events : TitleHas(events[i], call.selector)}

Mutations == {i \in DOMAIN requests : requests[i].method \in {"patch", "delete"}}

\* C1: among the fetched events whose title contains the selector, the target is
\* the earliest of those starting at or after now when there is one, otherwise
\* the latest of those starting before now.
C1_TargetChoice ==
    pc \in {"chosen", "done"} /\ Candidates # {} =>
        /\ target # None
        /\ \E i \in Candidates : events[i] = target[1]
        /\ IF \E i \in Candidates : start_dt(events[i]) >= now
           THEN /\ start_dt(target[1]) >= now
                /\ \A i \in Candidates :
                       start_dt(events[i]) >= now
                           => start_dt(target[1]) <= start_dt(events[i])
           ELSE \A i \in Candidates : start_dt(target[1]) >= start_dt(events[i])

\* C1 witness: matching events before and after now, two of them after at
\* different instants, and the one chosen is not the first of the list.
C1_Witness ==
    /\ pc = "chosen"
    /\ \E i, j, k \in Candidates :
           /\ start_dt(events[i]) < now
           /\ now <= start_dt(events[j])
           /\ start_dt(events[j]) < start_dt(events[k])
           /\ target = Some(events[j])
    /\ target # Some(events[1])

\* C2: when no fetched event has a title containing the selector, the call
\* returns the not-found result, raises nothing and sends no patch or delete.
C2_NotFound ==
    pc \in {"chosen", "done"} /\ Candidates = {} =>
        /\ pc = "done"
        /\ result = "not_found"
        /\ Mutations = {}
        /\ target = None

\* C2 witness: a non-empty fetched list without a matching title.
C2_Witness ==
    /\ pc = "done"
    /\ events # <<>>
    /\ Candidates = {}
    /\ result = "not_found"

Fetches == {i \in DOMAIN requests : requests[i].method = "list"}

\* C15: a call of move_event / delete_event fetches, chooses, then mutates: the
\* list is requested once, first, with the window now - 30 days .. now + 365
\* days; no patch or delete is sent before the choice is made; at most one is
\* sent, as the last request, of the kind of the call, and it addresses the
\* chosen target, an event of the fetched list.
C15_FetchChooseMutate ==
    /\ pc = "call" => requests = <<>>
    /\ pc \in {"fetched", "chosen", "done"} =>
           /\ Fetches = {1}
           /\ requests[1].timeMin = now - 30 * Day
           /\ requests[1].timeMax = now + 365 * Day
    /\ pc \in {"call", "fetched", "chosen"} => Mutations = {}
    /\ Cardinality(Mutations) <= 1
    /\ \A i \in Mutations :
           /\ i = 2 /\ Len(requests) = 2
           /\ requests[i].method = IF call.op = "move" THEN "patch" ELSE "delete"
           /\ target # None
           /\ requests[i].id = target[1].id
           /\ \E k \in DOMAIN events : events[k] = target[1]

\* C15 witness: a delete among several fetched events, addressing one that is
\* not the first of the list.
C15_Witness ==
    /\ pc = "done"
    /\ Len(events) >= 2
    /\ Len(requests) = 2
    /\ requests[1].method = "list"
    /\ requests[2].method = "delete"
    /\ requests[2].id # events[1].id
    /\ requests[2].id = target[1].id

(***************************************************************************)
(* app/nlu.py: _choose_best_match and _parse_when.  dateparser is not part *)
(* of the repository: what dateparser.parse and search_dates return is     *)
(* chosen freely.  An element of the list of search_dates is               *)
(* [shape, txt, dt] with shape "tuple", "datetime" (a bare datetime) or    *)
(* "other" (an element the loop skips).                                    *)
(***************************************************************************)
\* timedelta(seconds=60)
Grace == 60

\* time_like = \b\d{1,2}[:.]\d{2}\b|\b\d{3,4}\b ; time_like.search(txt)
time_like(txt) ==
    \E i \in 1..Len(txt) :
        /\ WordBoundary(txt, i)
        /\ DigitAt(txt, i)
        /\ \/ \E h \in 1..2 :
                 /\ \A k \in 0..(h - 1) : DigitAt(txt, i + k)
                 /\ i + h <= Len(txt) /\ txt[i + h] \in {":", "."}
                 /\ DigitAt(txt, i + h + 1) /\ DigitAt(txt, i + h + 2)
                 /\ WordBoundary(txt, i + h + 3)
           \/ \E n \in 3..4 :
                 /\ \A k \in 0..(n - 1) : DigitAt(txt, i + k)
                 /\ WordBoundary(txt, i + n)

\* norm: the (text, datetime) pairs of the elements that carry a datetime
Norm(matches) ==
    LET Kept(item) == item.shape \in {"tuple", "datetime"} /\ item.dt # None
        Pair(item) == [txt |-> IF item.shape = "tuple" THEN item.txt ELSE <<>>,
                       dt |-> item.dt[1]]
        kept == SelectSeq(matches, Kept)
    IN  [i \in DOMAIN kept |-> Pair(kept[i])]

\* the candidate taken from the end of norm whatever the substrings are
CandidateLast(norm) == norm[Len(norm)].dt

\* candidate = with_time[0] if with_time else norm[-1][1]
Candidate(norm) ==
    LET with_time == SelectSeq(norm, LAMBDA p : time_like(p.txt))
    IN  IF with_time # <<>> THEN with_time[1].dt ELSE norm[Len(norm)].dt

\* _choose_best_match with the guard comparing with "<" instead of "<="
choose_best_match_strict(matches, n) ==
    LET norm == Norm(matches)
    IN  IF norm = <<>> THEN None
        ELSE IF Candidate(norm) < n + Grace THEN None
        ELSE Some(Candidate(norm))

choose_best_match(matches, n) ==
    LET norm == Norm(matches)
    IN  IF norm = <<>> THEN None
        ELSE IF Candidate(norm) <= n + Grace THEN None
        ELSE Some(Candidate(norm))

\* _parse_when, given what dateparser.parse (d) and search_dates (f) returned
parse_when(d, f, n) ==
    IF d # None /\ d[1] > n + Grace THEN d
    ELSE IF f = <<>> THEN None
    ELSE choose_best_match(f, n)

RECURSIVE lstrip(_)
lstrip(s) == IF s # <<>> /\ IsSpace(s[1]) THEN lstrip(Tail(s)) ELSE s

RECURSIVE rstrip(_)
rstrip(s) ==
    IF s # <<>> /\ IsSpace(s[Len(s)]) THEN rstrip(SubSeq(s, 1, Len(s) - 1)) ELSE s

\* str.strip()
strip(s) == rstrip(lstrip(s))

(***************************************************************************)
(* app/nlu.py: _clean_title.                                               *)
(***************************************************************************)
WEEKDAYS ==
    {<<"p", "o", "n", "e", "d", "e", "l", "soft", "n", "i", "k">>,
     <<"v", "t", "o", "r", "n", "i", "k">>,
     <<"s", "r", "e", "d", "a">>,
     <<"ch", "e", "t", "v", "e", "r", "g">>,
     <<"p", "ya", "t", "n", "i", "c", "a">>,
     <<"s", "u", "b", "b", "o", "t", "a">>,
     <<"v", "o", "s", "k", "r", "e", "s", "e", "n", "soft", "e">>,
     <<"p", "o", "n", "e", "d">>,
     <<"v", "t", "o", "r">>,
     <<"s", "r", "e", "d">>,
     <<"ch", "e", "t", "v">>,
     <<"p", "ya", "t", "n">>,
     <<"s", "u", "b", "b">>,
     <<"v", "o", "s", "k", "r">>}

\* the words about time and date
TimeWords ==
    {<<"s", "e", "g", "o", "d", "n", "ya">>,
     <<"z", "a", "v", "t", "r", "a">>,
     <<"p", "o", "s", "l", "e", "z", "a", "v", "t", "r", "a">>,
     <<"p", "o", "s", "l", "e">>,
     <<"ch", "e", "r", "e", "z">>,
     <<"m", "i", "n", "u", "t">>,
     <<"m", "i", "n", "u", "t", "y">>,
     <<"m", "i", "n", "u", "t", "u">>,
     <<"ch", "a", "s">>,
     <<"ch", "a", "s", "a">>,
     <<"ch", "a", "s", "o", "v">>,
     <<"d", "e", "n", "soft">>,
     <<"d", "n", "ya">>,
     <<"d", "n", "e", "j">>,
     <<"n", "e", "d", "e", "l", "yu">>,
     <<"n", "e", "d", "e", "l", "i">>,
     <<"n", "e", "d", "e", "l", "soft">>,
     <<"m", "e", "s", "ya", "c">>,
     <<"m", "e", "s", "ya", "c", "a">>,
     <<"m", "e", "s", "ya", "c", "e", "v">>,
     <<"v">>,
     <<"k">>,
     <<"n", "a">>,
     <<"v", "o">>}

\* the command verbs
CommandWords ==
    {<<"n", "a", "p", "o", "m", "n", "i">>,
     <<"n", "a", "p", "o", "m", "i", "n", "a", "n", "i", "e">>,
     <<"n", "a", "p", "o", "m", "i", "n", "a", "l", "k", "u">>,
     <<"n", "a", "p", "o", "m", "n", "i", "t", "soft">>,
     <<"s", "o", "z", "d", "a", "j">>,
     <<"s", "o", "z", "d", "a", "t", "soft">>,
     <<"s", "d", "e", "l", "a", "j">>,
     <<"s", "d", "e", "l", "a", "t", "soft">>,
     <<"p", "o", "s", "t", "a", "v", "soft">>,
     <<"p", "o", "s", "t", "a", "v", "i", "t", "soft">>}

STOP_WORDS == TimeWords \cup CommandWords \cup WEEKDAYS

\* _TIME_PATTERNS[k - 1] at position i of s: the length of the match, 0 for none.
\* Every pattern is \b v \s* followed by its digits.
TimeBlock(k, s, i) ==
    IF ~(WordBoundary(s, i) /\ i <= Len(s) /\ s[i] \in {"v", "V"}) THEN 0
    ELSE
    LET j == i + 1 + SpaceRun(s, i + 1)
        Clock(sep, h) ==
            /\ \A x \in 0..(h - 1) : DigitAt(s, j + x)
            /\ j + h <= Len(s) /\ s[j + h] = sep
            /\ DigitAt(s, j + h + 1) /\ DigitAt(s, j + h + 2)
            /\ WordBoundary(s, j + h + 3)
        Run(n) ==
            /\ \A x \in 0..(n - 1) : DigitAt(s, j + x)
            /\ WordBoundary(s, j + n)
        Spaced(h) ==
            /\ \A x \in 0..(h - 1) : DigitAt(s, j + x)
            /\ SpaceTail(s, j + h)
    IN  CASE k = 1 -> IF Clock(":", 2) THEN j + 5 - i
                      ELSE IF Clock(":", 1) THEN j + 4 - i ELSE 0
          [] k = 2 -> IF Clock(".", 2) THEN j + 5 - i
                      ELSE IF Clock(".", 1) THEN j + 4 - i ELSE 0
          [] k = 3 -> IF Run(4) THEN j + 4 - i
                      ELSE IF Run(3) THEN j + 3 - i ELSE 0
          [] k = 4 -> IF Spaced(2) THEN j + 2 + SpaceRun(s, j + 2) + 2 - i
                      ELSE IF Spaced(1) THEN j + 1 + SpaceRun(s, j + 1) + 2 - i
                      ELSE 0

\* rx.sub(" ", s) for the k-th pattern
RECURSIVE SubTimeBlock(_, _, _)
SubTimeBlock(k, s, i) ==
    IF i > Len(s) THEN <<>>
    ELSE LET n == TimeBlock(k, s, i)
         IN  IF n = 0 THEN <<s[i]>> \o SubTimeBlock(k, s, i + 1)
             ELSE <<" ">> \o SubTimeBlock(k, s, i + n)

\* [t for t in re.split(r"\s+", s) if t]
RECURSIVE Tokens(_)
Tokens(s) ==
    LET body == lstrip(s)
        n == IF \E i \in DOMAIN body : IsSpace(body[i])
             THEN (CHOOSE i \in DOMAIN body :
                      IsSpace(body[i]) /\ \A x \in 1..(i - 1) : ~IsSpace(body[x])) - 1
             ELSE Len(body)
    IN  IF body = <<>> THEN <<>>
        ELSE <<SubSeq(body, 1, n)>> \o Tokens(SubSeq(body, n + 1, Len(body)))

\* " ".join(tokens)
RECURSIVE Join(_)
Join(tokens) ==
    IF tokens = <<>> THEN <<>>
    ELSE IF Len(tokens) = 1 THEN tokens[1]
    ELSE tokens[1] \o <<" ">> \o Join(Tail(tokens))

\* re.sub(r"[^\w...0-9\s\-]+", "", s): only word characters, whitespace and "-" stay
KeepTitleChars(s) == SelectSeq(s, LAMBDA c : IsWord(c) \/ IsSpace(c) \/ c = "-")

\* re.sub(r"\s{2,}", " ", s)
RECURSIVE CollapseSpaces(_)
CollapseSpaces(s) ==
    IF s = <<>> THEN <<>>
    ELSE IF SpaceRun(s, 1) >= 2
         THEN <<" ">> \o CollapseSpaces(SubSeq(s, SpaceRun(s, 1) + 1, Len(s)))
    ELSE <<s[1]>> \o CollapseSpaces(Tail(s))

\* _clean_title up to its last line: what is left of the lower-cased text
\* without the time blocks, the stop words and the foreign characters
cleaned(txt) ==
    LET cut == SubTimeBlock(4, SubTimeBlock(3, SubTimeBlock(2,
                   SubTimeBlock(1, lower(txt), 1), 1), 1), 1)
        kept == SelectSeq(Tokens(cut), LAMBDA t : t \notin STOP_WORDS)
    IN  strip(CollapseSpaces(KeepTitleChars(Join(kept))))

\* _clean_title without the fallback of its last line
clean_title_no_fallback(txt) == cleaned(txt)

\* return s or text.strip()
clean_title(txt) == IF cleaned(txt) # <<>> THEN cleaned(txt) ELSE strip(txt)

(***************************************************************************)
(* app/nlu.py: parse_intent.  The key words, transliterated.               *)
(***************************************************************************)
\* chto u menya
KwChtoUMenya == <<"ch", "t", "o", " ", "u", " ", "m", "e", "n", "ya">>

\* raspisan
KwRaspisan == <<"r", "a", "s", "p", "i", "s", "a", "n">>

\* pokazhi plan
KwPokazhiPlan == <<"p", "o", "k", "a", "zh", "i", " ", "p", "l", "a", "n">>

\* segodnya (today)
KwSegodnya == <<"s", "e", "g", "o", "d", "n", "ya">>

\* zavtra (tomorrow)
KwZavtra == <<"z", "a", "v", "t", "r", "a">>

\* perenesi
KwPerenesi == <<"p", "e", "r", "e", "n", "e", "s", "i">>

\* perenos
KwPerenos == <<"p", "e", "r", "e", "n", "o", "s">>

\* udali
KwUdali == <<"u", "d", "a", "l", "i">>

\* otmeni
KwOtmeni == <<"o", "t", "m", "e", "n", "i">>

\* sozdaj (create)
WordSozdaj == <<"s", "o", "z", "d", "a", "j">>

\* napomni (remind)
WordNapomni == <<"n", "a", "p", "o", "m", "n", "i">>

\* Udali, capitalised
WordUdali == <<"U", "d", "a", "l", "i">>

\* vstrechu (the meeting)
WordVstrechu == <<"v", "s", "t", "r", "e", "ch", "u">>

ListKeywords == {KwChtoUMenya, KwRaspisan, KwPokazhiPlan}
MoveKeywords == {KwPerenesi, KwPerenos}
DeleteKeywords == {KwUdali, KwOtmeni}

\* datetime.replace(hour=0, minute=0, second=0, microsecond=0)
Midnight(n) == (n \div Day) * Day

\* any(kw in low for kw in kws)
AnyIn(kws, low) == \E kw \in kws : Contains(low, kw)

\* parse_intent with the delete test placed before the list and move tests
parse_intent_delete_first(txt, w, n) ==
    LET t == strip(txt)
        low == lower(t)
    IN  IF w # None
        THEN [NoIntent EXCEPT !.type = "create", !.title = Some(clean_title(t)),
                              !.start = w, !.end = Some(w[1] + HalfHour)]
        ELSE IF AnyIn(DeleteKeywords, low)
        THEN [NoIntent EXCEPT !.type = "delete", !.selector = Some(t)]
        ELSE IF AnyIn(ListKeywords, low)
        THEN [NoIntent EXCEPT !.type = "list", !.range_start = Some(n),
                              !.range_end = Some(n + Day)]
        ELSE IF Contains(low, KwSegodnya)
        THEN [NoIntent EXCEPT !.type = "list", !.range_start = Some(Midnight(n)),
                              !.range_end = Some(Midnight(n) + Day)]
        ELSE IF Contains(low, KwZavtra)
        THEN [NoIntent EXCEPT !.type = "list", !.range_start = Some(Midnight(n + Day)),
                              !.range_end = Some(Midnight(n + Day) + Day)]
        ELSE IF AnyIn(MoveKeywords, low)
        THEN [NoIntent EXCEPT !.type = "move", !.selector = Some(t)]
        ELSE NoIntent

\* parse_intent with the selector taken from low instead of t
parse_intent_low_selector(txt, w, n) ==
    LET t == strip(txt)
        low == lower(t)
    IN  IF w # None
        THEN [NoIntent EXCEPT !.type = "create", !.title = Some(clean_title(t)),
                              !.start = w, !.end = Some(w[1] + HalfHour)]
        ELSE IF AnyIn(ListKeywords, low)
        THEN [NoIntent EXCEPT !.type = "list", !.range_start = Some(n),
                              !.range_end = Some(n + Day)]
        ELSE IF Contains(low, KwSegodnya)
        THEN [NoIntent EXCEPT !.type = "list", !.range_start = Some(Midnight(n)),
                              !.range_end = Some(Midnight(n) + Day)]
        ELSE IF Contains(low, KwZavtra)
        THEN [NoIntent EXCEPT !.type = "list", !.range_start = Some(Midnight(n + Day)),
                              !.range_end = Some(Midnight(n + Day) + Day)]
        ELSE IF AnyIn(MoveKeywords, low)
        THEN [NoIntent EXCEPT !.type = "move", !.selector = Some(low)]
        ELSE IF AnyIn(DeleteKeywords, low)
        THEN [NoIntent EXCEPT !.type = "delete", !.selector = Some(low)]
        ELSE NoIntent

\* parse_intent(text), given the result w of _parse_when(t, tz) and the clock n
parse_intent(txt, w, n) ==
    LET t == strip(txt)
        low == lower(t)
    IN  IF w # None
        THEN [NoIntent EXCEPT !.type = "create", !.title = Some(clean_title(t)),
                              !.start = w, !.end = Some(w[1] + HalfHour)]
        ELSE IF AnyIn(ListKeywords, low)
        THEN [NoIntent EXCEPT !.type = "list", !.range_start = Some(n),
                              !.range_end = Some(n + Day)]
        ELSE IF Contains(low, KwSegodnya)
        THEN [NoIntent EXCEPT !.type = "list", !.range_start = Some(Midnight(n)),
                              !.range_end = Some(Midnight(n) + Day)]
        ELSE IF Contains(low, KwZavtra)
        THEN [NoIntent EXCEPT !.type = "list", !.range_start = Some(Midnight(n + Day)),
                              !.range_end = Some(Midnight(n + Day) + Day)]
        ELSE IF AnyIn(MoveKeywords, low)
        THEN [NoIntent EXCEPT !.type = "move", !.selector = Some(t)]
        ELSE IF AnyIn(DeleteKeywords, low)
        THEN [NoIntent EXCEPT !.type = "delete", !.selector = Some(t)]
        ELSE NoIntent

(***************************************************************************)
(* Specification of parse_intent as a pure function of the text and of the *)
(* results of dateparser, called at noon of day 100.                       *)
(***************************************************************************)
MaxFound == 2

\* the same bound for the messages of the bot
MaxFoundInText == 1

\* a date without a time, a time, and a bare run of four digits
FoundTexts ==
    {<<"z", "a", "v", "t", "r", "a">>, <<"v", " ", "1", "5", ":", "0", "0">>,
     <<"2", "5", "0", "0">>}

\* the instants dateparser may return: the last one the guard rejects, the
\* first one it accepts, and the next midnight
ParsedTimes(n) == {n + Grace, n + Grace + 1, ((n \div Day) + 1) * Day}

FoundItems(n) ==
    {[shape |-> "tuple", txt |-> x, dt |-> Some(t)] :
        x \in FoundTexts, t \in ParsedTimes(n)}
    \cup {[shape |-> "datetime", txt |-> <<>>, dt |-> Some(t)] : t \in ParsedTimes(n)}
    \cup {[shape |-> "other", txt |-> <<>>, dt |-> None]}

RECURSIVE FoundLists(_, _)
FoundLists(k, n) ==
    IF k = 0 THEN {<<>>}
    ELSE LET shorter == FoundLists(k - 1, n)
         IN  shorter \cup {Append(f, item) : f \in shorter, item \in FoundItems(n)}

DirectParses(n) == {None} \cup {Some(t) : t \in ParsedTimes(n)}

\* the texts of this specification: none, a delete command, a date with a time
WhenTexts ==
    {<<>>,
     WordUdali \o <<" ">> \o WordVstrechu,
     KwZavtra \o <<" ", "v", " ", "1", "5", ".", "0", "0", " ">> \o WordVstrechu}

InitWhen ==
    /\ text \in WhenTexts
    /\ normalized = <<>>
    /\ now = Noon
    /\ dt \in (IF text = <<>> THEN {None} ELSE DirectParses(Noon))
    /\ found \in (IF text = <<>> THEN {<<>>} ELSE FoundLists(MaxFound, Noon))
    /\ when = None
    /\ intent = NoIntent
    /\ pc = "start"
    /\ calendar = <<>>
    /\ call = NoCall
    /\ events = <<>>
    /\ target = None
    /\ requests = <<>>
    /\ result = "none"
    /\ BotIdle
    /\ NoUpdate

\* parse_intent(text) with dateparser.parse returning dt and search_dates found
ParseGiven ==
    /\ pc = "start"
    /\ normalized' = normalize_time_tokens(strip(text))
    /\ when' = parse_when(dt, found, now)
    /\ intent' = parse_intent(text, when', now)
    /\ pc' = "parsed"
    /\ UNCHANGED <<text, dt, found, calVars, botVars>>

NextWhen == ParseGiven

SpecWhen == InitWhen /\ [][NextWhen]_vars

(***************************************************************************)
(* Properties of _parse_when (checked under SpecWhen).                     *)
(***************************************************************************)
\* the direct parse gave a timestamp later than now + 60 s
DirectAccepted == dt # None /\ dt[1] > now + Grace

\* C8: _parse_when yields no timestamp or one strictly later than now + 60 s; a
\* direct parse later than that is returned as it is, and a chosen candidate at
\* or before now + 60 s gives no timestamp.  Hence the start of every Create
\* intent is more than 60 s after now.
C8_ImmediacyGuard ==
    pc = "parsed" =>
        /\ when = None \/ when[1] > now + Grace
        /\ intent.type = "create" => intent.start # None /\ intent.start[1] > now + Grace
        /\ when # None => intent.type = "create" /\ intent.start = when
        /\ DirectAccepted => when = dt
        /\ ~DirectAccepted /\ Norm(found) # <<>>
               /\ Candidate(Norm(found)) <= now + Grace => when = None
        /\ ~DirectAccepted /\ Norm(found) # <<>>
               /\ Candidate(Norm(found)) > now + Grace
               => when = Some(Candidate(Norm(found)))

\* C8 witness: the direct parse is not later than now + 60 s and the candidate
\* of the embedded matches lies exactly at now + 60 s, so it is discarded
\* although another match is later.
C8_Witness ==
    /\ pc = "parsed"
    /\ dt # None /\ ~DirectAccepted
    /\ Norm(found) # <<>>
    /\ Candidate(Norm(found)) = now + Grace
    /\ \E i \in DOMAIN found : found[i].dt # None /\ found[i].dt[1] > now + Grace
    /\ when = None
    /\ intent.type # "create"

\* the matches of search_dates that carry a datetime, and those among them whose
\* substring holds an explicit numeric time
FoundNorm == Norm(found)
Timed == {i \in DOMAIN FoundNorm : time_like(FoundNorm[i].txt)}

\* _parse_when answers with the candidate c: c itself, or nothing when the guard
\* discards it
AnsweredWith(c) == when = IF c > now + Grace THEN Some(c) ELSE None

\* C14: when the direct parse gives no timestamp later than now + 60 s, the
\* candidate is a match whose substring holds an explicit numeric time whenever
\* a match has one (the first of them), and the last match when none has.
C14_PreferExplicitTime ==
    pc = "parsed" /\ ~DirectAccepted /\ FoundNorm # <<>> =>
        IF Timed # {}
        THEN AnsweredWith(FoundNorm[CHOOSE i \in Timed : \A j \in Timed : i <= j].dt)
        ELSE AnsweredWith(FoundNorm[Len(FoundNorm)].dt)

\* C14 witness: the first match holds a time, the second one is a bare date at
\* another instant; the answer is the first, not the last.
C14_Witness ==
    /\ pc = "parsed"
    /\ ~DirectAccepted
    /\ Len(FoundNorm) = 2
    /\ Timed = {1}
    /\ FoundNorm[1].dt # FoundNorm[2].dt
    /\ FoundNorm[1].dt > now + Grace
    /\ when = Some(FoundNorm[1].dt)

(***************************************************************************)
(* app/main.py: the handlers of an incoming message and process_text, from  *)
(* the text to the reply and the reminder, with the calls of               *)
(* CalendarClient it makes.                                                *)
(***************************************************************************)
\* BOT_REMINDER_MINUTES_BEFORE, in seconds
BOT_REMINDER == 15 * 60

\* create_event: the start of the body it builds, None where it raises ValueError
create_body(start, end) ==
    IF start # None /\ end # None
    THEN Some([kind |-> "dateTime", value |-> start[1]])
    ELSE IF start # None /\ start[1] % Day = 0
    THEN Some([kind |-> "date", value |-> start[1] \div Day])
    ELSE None

\* the id the service gives to an inserted event
FreshId(cal) == 1 + Len(cal) + Cardinality({i \in DOMAIN cal : cal[i].id > Len(cal)})

\* what _parse_when can return at n, over the results of dateparser; in a text
\* without any character dateparser finds nothing
WhenResults(txt, n) ==
    IF strip(txt) = <<>> THEN {None}
    ELSE {parse_when(d, f, n) :
             d \in DirectParses(n), f \in FoundLists(MaxFoundInText, n)}

\* @dp.message(F.from_user.id != OWNER_ID), the first handler registered:
\* deny_for_others answers the fixed text (m.answer delivers it or raises)
deny_for_others ==
    /\ pc = "update"
    /\ sender # OWNER_ID
    /\ \E delivered \in BOOLEAN :
           replies' = IF delivered THEN Append(replies, "denied") ELSE replies
    /\ pc' = "denied"
    /\ UNCHANGED <<nluVars, calVars, jobs, reminders, sender, kind>>

\* @dp.message(F.voice): the file is downloaded and transcribed; text is what
\* transcribe_voice returns.  When it raises the reply is the error text
handle_voice ==
    /\ pc = "update"
    /\ sender = OWNER_ID
    /\ kind = "voice"
    /\ \E transcribed \in BOOLEAN :
           IF transcribed
           THEN pc' = "received" /\ UNCHANGED replies
           ELSE pc' = "stt_failed" /\ replies' = Append(replies, "stt_error")
    /\ UNCHANGED <<nluVars, calVars, jobs, reminders, sender, kind>>

\* handle_text as if it were registered before deny_for_others
handle_text_any_sender ==
    /\ pc = "update"
    /\ kind = "text"
    /\ pc' = "received"
    /\ UNCHANGED <<nluVars, calVars, botVars>>

\* @dp.message(F.text): process_text(m, m.text)
handle_text ==
    /\ pc = "update"
    /\ sender = OWNER_ID
    /\ kind = "text"
    /\ pc' = "received"
    /\ UNCHANGED <<nluVars, calVars, botVars>>

\* intent = parse_intent(text, tz=TZ); dateparser's results are chosen freely
ParseIntent ==
    /\ pc = "received"
    /\ \E w \in WhenResults(text, now) :
           /\ when' = w
           /\ intent' = parse_intent(text, w, now)
    /\ normalized' = normalize_time_tokens(strip(text))
    /\ pc' = "parsed"
    /\ UNCHANGED <<text, dt, found, calVars, botVars>>

\* create with no start, or unknown: the reply is HELP_TEXT
Help ==
    /\ pc = "parsed"
    /\ intent.type = "unknown" \/ (intent.type = "create" /\ intent.start = None)
    /\ result' = "help"
    /\ pc' = "reply"
    /\ UNCHANGED <<nluVars, botVars, now, calendar, call, events, target, requests>>

\* event = cal.create_event(intent.title, intent.start, intent.end, ...)
CreateEvent ==
    /\ pc = "parsed"
    /\ intent.type = "create" /\ intent.start # None
    /\ LET body == create_body(intent.start, intent.end)
       IN  IF body = None
           THEN /\ result' = "ValueError"
                /\ pc' = "failed"
                /\ UNCHANGED <<calendar, requests>>
           ELSE /\ calendar' = Append(calendar,
                       [id |-> FreshId(calendar), summary |-> intent.title[1],
                        start |-> body[1]])
                /\ requests' = Append(requests,
                       [method |-> "insert", start |-> body[1]])
                /\ result' = "created"
                /\ pc' = "reply"
    /\ UNCHANGED <<nluVars, botVars, now, call, events, target>>

\* events = cal.list_events(intent.range_start, intent.range_end)
ListEvents ==
    /\ pc = "parsed"
    /\ intent.type = "list"
    /\ events' = list_events(calendar, intent.range_start[1], intent.range_end[1])
    /\ requests' = Append(requests,
           [method |-> "list", timeMin |-> intent.range_start[1],
            timeMax |-> intent.range_end[1]])
    /\ result' = IF events' = <<>> THEN "nothing" ELSE "listed"
    /\ pc' = "reply"
    /\ UNCHANGED <<nluVars, botVars, now, calendar, call, target>>

\* res = cal.move_event(intent.selector, intent.new_start, intent.new_end)
CallMove ==
    /\ pc = "parsed"
    /\ intent.type = "move"
    /\ call' = [op |-> "move", selector |-> intent.selector[1],
                new_start |-> intent.new_start, new_end |-> intent.new_end]
    /\ pc' = "call"
    /\ UNCHANGED <<nluVars, botVars, now, calendar, events, target, requests, result>>

\* res = cal.delete_event(intent.selector)
CallDelete ==
    /\ pc = "parsed"
    /\ intent.type = "delete"
    /\ call' = [op |-> "delete", selector |-> intent.selector[1],
                new_start |-> None, new_end |-> None]
    /\ pc' = "call"
    /\ UNCHANGED <<nluVars, botVars, now, calendar, events, target, requests, result>>

\* move_event / delete_event comes back: with its result, or with the exception
\* it raised, which ends process_text
Return ==
    /\ pc = "done"
    /\ pc' = IF result = "TypeError" THEN "failed" ELSE "reply"
    /\ UNCHANGED <<nluVars, botVars, calVars>>

\* await send_reply(m, ..., reply_mode): delivered
SendReply ==
    /\ pc = "reply"
    /\ replies' = Append(replies, result)
    /\ pc' = IF intent.type = "create" /\ intent.start # None THEN "remind"
             ELSE "finished"
    /\ UNCHANGED <<nluVars, calVars, jobs, reminders, sender, kind>>

\* await send_reply(m, ..., reply_mode): m.answer raises, which ends process_text
SendReplyFails ==
    /\ pc = "reply"
    /\ pc' = "failed"
    /\ UNCHANGED <<nluVars, calVars, botVars>>

\* _safe_schedule_bot_reminder adding the job whatever the fire instant is
ScheduleReminderAlways ==
    /\ pc = "remind"
    /\ jobs' = jobs \cup {[run_date |-> intent.start[1] - BOT_REMINDER,
                           summary |-> intent.title[1], start |-> intent.start[1]]}
    /\ pc' = "finished"
    /\ UNCHANGED <<nluVars, calVars, replies, reminders, sender, kind>>

\* _safe_schedule_bot_reminder(event['summary'], intent.start)
ScheduleReminder ==
    /\ pc = "remind"
    /\ LET remind_at == intent.start[1] - BOT_REMINDER
       IN  IF remind_at <= now
           THEN /\ reminders' = Append(reminders,
                       [summary |-> intent.title[1], start |-> intent.start[1]])
                /\ UNCHANGED jobs
           ELSE /\ jobs' = jobs \cup {[run_date |-> remind_at,
                       summary |-> intent.title[1], start |-> intent.start[1]]}
                /\ UNCHANGED reminders
    /\ pc' = "finished"
    /\ UNCHANGED <<nluVars, calVars, replies, sender, kind>>

(***************************************************************************)
(* Specification of the bot: one message of any sender, of at most         *)
(* MaxWords words, at noon of day 100, against a calendar of up to two     *)
(* events.                                                                 *)
(***************************************************************************)
MaxWords == 2

Words == {<<>>, WordUdali, KwPerenesi, KwSegodnya, KwChtoUMenya, WordSozdaj,
          WordVstrechu}

\* the texts of at most n words, each followed by a blank but the last
RECURSIVE Phrases(_)
Phrases(n) ==
    IF n = 0 THEN {<<>>}
    ELSE IF n = 1 THEN Words
    ELSE LET shorter == Phrases(n - 1)
         IN  shorter \cup {p \o <<" ">> \o w : p \in shorter, w \in Words}

\* an event tomorrow at noon and an all-day event today, titled like commands
EventTomorrow ==
    [id |-> 1, summary |-> WordUdali \o <<" ">> \o WordVstrechu,
     start |-> [kind |-> "dateTime", value |-> Noon + Day]]

EventToday ==
    [id |-> 2, summary |-> lower(KwPerenesi \o <<" ">> \o WordVstrechu),
     start |-> [kind |-> "date", value |-> Noon \div Day]]

BotCalendars == {<<>>, <<EventTomorrow>>, <<EventTomorrow, EventToday>>}

\* the senders of messages: the owner and somebody else
Senders == {OWNER_ID, OWNER_ID + 1}

\* text, voice, and a message with neither (a photo, a sticker)
Kinds == {"text", "voice", "other"}

Init ==
    /\ sender \in Senders
    /\ kind \in Kinds
    /\ text \in (IF kind = "other" THEN {<<>>} ELSE Phrases(MaxWords))
    /\ normalized = <<>>
    /\ pc = "update"
    /\ now = Noon
    /\ calendar \in BotCalendars
    /\ call = NoCall
    /\ events = <<>>
    /\ target = None
    /\ requests = <<>>
    /\ result = "none"
    /\ ParseIdle
    /\ BotIdle

Next ==
    \/ deny_for_others
    \/ handle_voice
    \/ handle_text
    \/ ParseIntent
    \/ Help
    \/ CreateEvent
    \/ ListEvents
    \/ CallMove
    \/ CallDelete
    \/ Fetch
    \/ Choose
    \/ Move
    \/ Delete
    \/ Return
    \/ SendReply
    \/ SendReplyFails
    \/ ScheduleReminder

Spec == Init /\ [][Next]_vars

(***************************************************************************)
(* Properties of parse_intent and process_text (checked under Spec).       *)
(***************************************************************************)
Parsed == pc \notin {"update", "received", "denied", "stt_failed"}

\* the key words the lower-cased message holds
HasListWord == AnyIn(ListKeywords \cup {KwSegodnya, KwZavtra}, lower(text))
HasMoveWord == AnyIn(MoveKeywords, lower(text))
HasDeleteWord == AnyIn(DeleteKeywords, lower(text))
HasCreateWord == AnyIn(CommandWords, lower(text))

\* C3: the rules are tried in the order Create, List, Move, Delete, Unknown and
\* the first that applies gives the type: an extracted date/time makes a Create
\* whatever key words the text holds, then a list word wins over move and
\* delete words, then a move word over a delete word; otherwise Unknown.
C3_FirstMatchWins ==
    Parsed =>
        intent.type =
            IF when # None THEN "create"
            ELSE IF HasListWord THEN "list"
            ELSE IF HasMoveWord THEN "move"
            ELSE IF HasDeleteWord THEN "delete"
            ELSE "unknown"

\* C3 witness: no date/time, a move word and a delete word: Move.
C3_Witness ==
    /\ pc = "parsed"
    /\ when = None
    /\ HasMoveWord /\ HasDeleteWord /\ ~HasListWord
    /\ intent.type = "move"

\* C4 (as claimed): a text with a create-class key word and no extractable
\* date/time is a Create with title and start absent.
C4_CreateWithoutDate ==
    Parsed /\ HasCreateWord /\ when = None =>
        intent.type = "create" /\ intent.title = None /\ intent.start = None

\* the start of the last event inserted into the calendar
InsertedStart == requests[Len(requests)].start

EventCreated == requests # <<>> /\ requests[Len(requests)].method = "insert"

\* C5 (as claimed): a Create intent with a midnight start is all-day, end =
\* start + 1 day, and its event is created date-only; any other Create intent
\* has end = start + 30 minutes and a timed event.
C5_AllDayOrTimed ==
    Parsed /\ intent.type = "create" /\ intent.start # None =>
        IF intent.start[1] % Day = 0
        THEN /\ intent.end = Some(intent.start[1] + Day)
             /\ EventCreated => InsertedStart.kind = "date"
        ELSE /\ intent.end = Some(intent.start[1] + HalfHour)
             /\ EventCreated => InsertedStart.kind = "dateTime"

\* C6 (as claimed): every Move intent carries a new_start and new_end =
\* new_start + 30 minutes, and move_event, once it has found a matching event,
\* patches it to new_start..new_end.
C6_MoveCarriesNewStart ==
    Parsed /\ intent.type = "move" =>
        /\ intent.new_start # None
        /\ intent.new_end = Some(intent.new_start[1] + HalfHour)
        /\ pc = "done" /\ target # None =>
               /\ result = "moved"
               /\ requests[Len(requests)] =
                      [method |-> "patch", id |-> target[1].id,
                       start |-> intent.new_start[1], end |-> intent.new_end[1]]

C11_Original ==
    LET Reminder == <<"R", "e", "m", "i", "n", "d", "e", "r">>
    IN  Parsed /\ intent.type = "create" =>
            /\ intent.title # None
            /\ intent.title[1] # <<>>
            /\ cleaned(strip(text)) = <<>> => intent.title = Some(Reminder)

\* C11 (amended): a Create intent never carries an empty title: its title is
\* what the cleaning of the text leaves and, when that is nothing, the input
\* text stripped of surrounding whitespace; the created event bears that title.
C11_TitleNeverEmpty ==
    Parsed /\ intent.type = "create" =>
        /\ intent.title # None
        /\ intent.title[1] # <<>>
        /\ intent.title[1] = IF cleaned(strip(text)) # <<>>
                             THEN cleaned(strip(text))
                             ELSE strip(text)
        /\ EventCreated => calendar[Len(calendar)].summary = intent.title[1]

\* C11 witness: an event created from a text of stop words only, behind a
\* blank: its title is the text without the blank.
C11_Witness ==
    /\ EventCreated
    /\ intent.type = "create"
    /\ cleaned(strip(text)) = <<>>
    /\ text # strip(text)
    /\ intent.title = Some(strip(text))
    /\ calendar[Len(calendar)].summary = strip(text)

\* the reminder of the event of the Create intent, and its fire instant
ReminderOfIntent == [summary |-> intent.title[1], start |-> intent.start[1]]
FireAt == intent.start[1] - BOT_REMINDER

\* _safe_schedule_bot_reminder has returned
ReminderHandled == pc = "finished" /\ intent.type = "create"

\* C12: the fire instant is start - lead time; when it is at or before now the
\* reminder is sent at once and no job is added, otherwise exactly one job is
\* added at that instant and nothing is sent; before that nothing is sent or
\* scheduled, and no job ever has a run time that is not after now.
C12_ReminderNowOrLater ==
    /\ \A j \in jobs : j.run_date > now
    /\ ~ReminderHandled => jobs = {} /\ reminders = <<>>
    /\ ReminderHandled =>
           IF FireAt <= now
           THEN reminders = <<ReminderOfIntent>> /\ jobs = {}
           ELSE /\ reminders = <<>>
                /\ jobs = {[run_date |-> FireAt, summary |-> intent.title[1],
                            start |-> intent.start[1]]}

\* C12 witness: an event starting less than the lead time after now: its
\* reminder is sent at once.
C12_Witness ==
    /\ ReminderHandled
    /\ intent.start[1] > now
    /\ FireAt <= now
    /\ reminders = <<ReminderOfIntent>>
    /\ jobs = {}

\* C13: for a message, text or voice or other, whose sender is not the owner
\* the only effect is the denial reply: process_text is never entered (no
\* intent is parsed), no request reaches the calendar, no CalendarClient call
\* is made, and no reminder is sent or scheduled.
C13_OthersDenied ==
    sender # OWNER_ID =>
        /\ pc \in {"update", "denied"}
        /\ pc = "update" => replies = <<>>
        /\ replies \in {<<>>, <<"denied">>}
        /\ intent = NoIntent /\ when = None
        /\ call = NoCall /\ events = <<>> /\ requests = <<>>
        /\ calendar \in BotCalendars
        /\ jobs = {} /\ reminders = <<>>

\* C13 witness: somebody else sends a voice message that would delete an
\* event of the calendar; the answer is the denial.
C13_Witness ==
    /\ sender # OWNER_ID
    /\ kind = "voice"
    /\ text = WordUdali
    /\ calendar # <<>>
    /\ pc = "denied"
    /\ replies = <<"denied">>

\* the optional fields of the intent that are populated
Populated ==
    {f \in {"title", "start", "end", "range_start", "range_end", "selector",
            "new_start", "new_end"} : intent[f] # None}

\* C16 (as claimed): an intent has exactly the fields of its kind populated.
C16_FieldsOfKind ==
    Parsed =>
        Populated =
            IF intent.type = "create" THEN {"title", "start", "end"}
            ELSE IF intent.type = "list" THEN {"range_start", "range_end"}
            ELSE IF intent.type = "move" THEN {"selector", "new_start", "new_end"}
            ELSE IF intent.type = "delete" THEN {"selector"}
            ELSE {}

\* process_text has ended: it returned or an exception left it
Ended == pc \in {"finished", "failed"}

\* C17 (as claimed): once process_text has created an event for a Create
\* intent, it does not end before the bot reminder of that event has been sent
\* or scheduled, exactly once, also when the confirmation cannot be delivered.
C17_ReminderAfterCreate ==
    /\ Len(reminders) + Cardinality(jobs) <= 1
    /\ Ended /\ EventCreated => Len(reminders) + Cardinality(jobs) = 1

====
